---- MODULE Spec2Model ----
(***************************************************************************)
(* vx_bevy: the asynchronous chunk meshing pipeline                        *)
(* (src/src/voxel/world/meshing.rs), the terrain uniform pipeline          *)
(* (src/src/voxel/render/terrain_uniforms.rs) and the debug overlay        *)
(* systems that feed both (src/src/debug/debug_ui.rs).                     *)
(*                                                                         *)
(* A frame is a walk through the stages of a schedule.  Entering a stage   *)
(* lists the systems that have to run in it (pending); each system is one  *)
(* action; when none is pending the stage's deferred commands are applied  *)
(* and the next stage is entered (AdvanceStage).  Tasks spawned on the     *)
(* AsyncComputeTaskPool are run by the workers at any moment.              *)
(***************************************************************************)
EXTENDS Integers, Sequences, FiniteSets, TLC

\* ---------------------------------------------------------------- bounds
NumKeys == 2
MaxEntities == 2
MaxTasks == 2
NumWorkers == 2
MaxVoxel == 2

Keys == 1..NumKeys
Entities == 1..MaxEntities
TaskIds == 1..MaxTasks
Workers == 1..NumWorkers
\* the contents a voxel buffer can have; 0 stands for "no buffer" / None
Voxels == 1..MaxVoxel

VARIABLES
    schedule,             \* the stages of a frame, in order
    stageIx,              \* position of the running stage in schedule
    pending,              \* systems of the running stage that have not run yet
    userInputs,           \* the input devices the user operates
    chunk_entities,       \* ChunkEntities: key -> entity, 0 = None
    chunk_map,            \* ChunkMap: key -> voxel buffer, 0 = None
    dirty_chunks,         \* DirtyChunks
    chunk_command_queue,  \* ChunkCommandQueue: keys queued for unloading
    nextEntity,           \* next fresh entity id
    entities,             \* the chunk entities and their components
    nextTask,             \* next fresh task id
    tasks,                \* the tasks spawned on the AsyncComputeTaskPool
    insertCmds,           \* deferred commands of queue_mesh_tasks
    removeCmds,           \* deferred commands of process_mesh_tasks
    captured,             \* history: buffer captured by the last scheduling of an entity
    mesh_buffers,         \* SHARED_MESH_BUFFERS: the thread-local workspaces
    ui_state,             \* DebugUIState
    chunk_loading_radius, \* ChunkLoadRadius and its change flag
    materials,            \* VoxelMaterialRegistry and its change flag
    extractCmds,          \* deferred insert_resource commands of the extract systems
    gpu_mats,             \* render world resource GpuTerrainMaterials
    gpu_settings,         \* render world resource GpuTerrainRenderSettings
    terrain_uniforms,     \* render world resource TerrainUniforms
    ran,                  \* history: render systems that ran in this frame
    writes,               \* history: buffers written (write_buffer) in this frame
    flagged,              \* history: resources flagged changed when Extract began
    lastFrame,            \* history: values and buffers at the end of the previous frame
    fault                 \* "none", or the panic that ended the program

meshVars == <<chunk_entities, chunk_map, dirty_chunks, chunk_command_queue,
              nextEntity, entities, nextTask, tasks, insertCmds, removeCmds, captured,
              mesh_buffers>>
uiVars == <<ui_state, chunk_loading_radius>>
renderVars == <<extractCmds, gpu_mats, gpu_settings, terrain_uniforms>>
historyVars == <<ran, writes, flagged, lastFrame>>
uniformVars == <<materials, renderVars, historyVars>>
vars == <<schedule, stageIx, pending, userInputs, meshVars, uiVars, uniformVars, fault>>

\* ---------------------------------------------------------------- meshes
\* Mesh::new(PrimitiveTopology::TriangleList): a mesh without geometry
EmptyMesh == [topology |-> "TriangleList", quadsOf |-> 0]

\* mesh_buffer: the deterministic meshing of a voxel buffer
mesh_buffer(buffer) == [topology |-> "TriangleList", quadsOf |-> buffer]

\* ---------------------------------------------------------------- schedules
MeshSchedule ==
    <<"ChunkLoadingStage", "ChunkMeshingPrepareStage", "ChunkMeshingStage",
      "debug_ui_stage", "Last">>

\* the debug overlay stage of the main world followed by the stages of the
\* render sub-app, in the order of RenderStage
RenderSchedule == <<"debug_ui_stage", "Extract", "Prepare", "Queue", "Render">>

stage == schedule[stageIx]

NextIx == IF stageIx = Len(schedule) THEN 1 ELSE stageIx + 1

\* display_debug_ui_criteria / display_mat_debug_ui_criteria, evaluated when
\* the stage starts
DebugUiSystems(ui) ==
    {"toggle_debug_ui_displays"}
        \cup (IF ui.display_debug_info THEN {"display_chunk_stats"} ELSE {})
        \cup (IF ui.display_mat_debug THEN {"display_material_editor"} ELSE {})

RenderSystems ==
    {"extract_voxel_materials", "extract_terrain_render_settings_uniform",
     "upload_voxel_materials", "upload_render_distance_uniform",
     "prepare_terrain_uniforms", "SetTerrainUniformsBindGroup"}

\* a plugin that adds prepare_terrain_uniforms to RenderStage::Prepare
RenderSystemStageEarly(sys) ==
    CASE sys \in {"extract_voxel_materials", "extract_terrain_render_settings_uniform"}
            -> "Extract"
      [] sys \in {"upload_voxel_materials", "upload_render_distance_uniform",
                  "prepare_terrain_uniforms"}
            -> "Prepare"
      [] sys = "SetTerrainUniformsBindGroup" -> "Render"

\* VoxelTerrainUniformsPlugin::build: the stage each system is added to; the
\* draw command runs in the render graph, in RenderStage::Render
RenderSystemStage(sys) ==
    CASE sys \in {"extract_voxel_materials", "extract_terrain_render_settings_uniform"}
            -> "Extract"
      [] sys \in {"upload_voxel_materials", "upload_render_distance_uniform"}
            -> "Prepare"
      [] sys = "prepare_terrain_uniforms" -> "Queue"
      [] sys = "SetTerrainUniformsBindGroup" -> "Render"

\* the systems each plugin adds to a stage
StageSystems(s, ui) ==
    CASE s = "ChunkLoadingStage" -> {"chunk_loader"}
      [] s = "ChunkMeshingPrepareStage" -> {"prepare_chunks"}
      [] s = "ChunkMeshingStage" -> {"queue_mesh_tasks", "process_mesh_tasks"}
      [] s = "debug_ui_stage" -> DebugUiSystems(ui)
      [] s = "Last" -> {"clear_dirty_chunks"}
      [] OTHER -> {sys \in RenderSystems : RenderSystemStage(sys) = s}

Runs(sys) == fault = "none" /\ sys \in pending
Ran(sys) == pending' = pending \ {sys}

\* ---------------------------------------------------------------- entities and tasks
NoEntity == [life |-> "unborn", key |-> 0, added |-> FALSE, bundle |-> FALSE,
             mesh |-> EmptyMesh, visible |-> FALSE, task |-> 0]

NoTask == [state |-> "unspawned", entity |-> 0, key |-> 0, buffer |-> 0,
           worker |-> 0, handle |-> "none"]

\* a task whose handle was dropped and whose body is not running: nothing of
\* it is left
GoneTask == [NoTask EXCEPT !.state = "gone"]

Alive(e) == entities[e].life = "alive"

\* a handle that is kept alive instead of dropped
DropTaskKept(t) == t

\* Dropping a Task handle cancels the task: a task that has not started never
\* runs, a running body (it has no await) runs to its end and its output is
\* discarded.
DropTask(t) ==
    IF t.state = "running" THEN [t EXCEPT !.handle = "dropped"] ELSE GoneTask

\* ---------------------------------------------------------------- chunk loading (collaborator)
LoaderRuns == Runs("chunk_loader") /\ UNCHANGED <<schedule, stageIx, pending, userInputs, uiVars, uniformVars, fault>>

CreateChunk(k) ==
    /\ LoaderRuns
    /\ chunk_entities[k] = 0
    /\ nextEntity <= MaxEntities
    /\ chunk_entities' = [chunk_entities EXCEPT ![k] = nextEntity]
    /\ entities' = [entities EXCEPT ![nextEntity] =
                        [NoEntity EXCEPT !.life = "alive", !.key = k, !.added = TRUE]]
    /\ nextEntity' = nextEntity + 1
    /\ UNCHANGED <<chunk_map, dirty_chunks, chunk_command_queue, nextTask, tasks,
                   insertCmds, removeCmds, captured, mesh_buffers>>

WriteBuffer(k, v) ==
    /\ LoaderRuns
    /\ chunk_map[k] # v
    /\ chunk_map' = [chunk_map EXCEPT ![k] = v]
    /\ UNCHANGED <<chunk_entities, dirty_chunks, chunk_command_queue, nextEntity,
                   entities, nextTask, tasks, insertCmds, removeCmds, captured, mesh_buffers>>

MarkDirty(k) ==
    /\ LoaderRuns
    /\ k \notin dirty_chunks
    /\ nextTask + Cardinality(dirty_chunks) <= MaxTasks
    /\ dirty_chunks' = dirty_chunks \cup {k}
    /\ UNCHANGED <<chunk_entities, chunk_map, chunk_command_queue, nextEntity,
                   entities, nextTask, tasks, insertCmds, removeCmds, captured, mesh_buffers>>

QueueUnload(k) ==
    /\ LoaderRuns
    /\ chunk_entities[k] # 0
    /\ k \notin chunk_command_queue
    /\ chunk_command_queue' = chunk_command_queue \cup {k}
    /\ UNCHANGED <<chunk_entities, chunk_map, dirty_chunks, nextEntity,
                   entities, nextTask, tasks, insertCmds, removeCmds, captured, mesh_buffers>>

\* drains the unload queue: despawns the entity (its components, the task
\* handle among them, are dropped), detaches it and removes the buffer
DestroyChunks ==
    /\ LoaderRuns
    /\ chunk_command_queue # {}
    /\ LET gone == {chunk_entities[k] : k \in chunk_command_queue} \ {0}
       IN  /\ entities' = [e \in Entities |->
                              IF e \in gone THEN [NoEntity EXCEPT !.life = "despawned"]
                              ELSE entities[e]]
           /\ tasks' = [t \in TaskIds |->
                           IF /\ tasks[t].entity \in gone
                              /\ tasks[t].handle = "attached"
                           THEN DropTask(tasks[t])
                           ELSE tasks[t]]
           /\ captured' = [e \in Entities |-> IF e \in gone THEN 0 ELSE captured[e]]
    /\ chunk_entities' = [k \in Keys |->
                             IF k \in chunk_command_queue THEN 0 ELSE chunk_entities[k]]
    /\ chunk_map' = [k \in Keys |->
                        IF k \in chunk_command_queue THEN 0 ELSE chunk_map[k]]
    /\ chunk_command_queue' = {}
    /\ UNCHANGED <<dirty_chunks, nextEntity, nextTask, insertCmds, removeCmds, mesh_buffers>>

\* the stage ends with the unload queue drained
LoaderDone ==
    /\ Runs("chunk_loader")
    /\ chunk_command_queue = {}
    /\ Ran("chunk_loader")
    /\ UNCHANGED <<schedule, stageIx, userInputs, meshVars, uiVars, uniformVars, fault>>

ClearDirtyChunks ==
    /\ Runs("clear_dirty_chunks")
    /\ Ran("clear_dirty_chunks")
    /\ dirty_chunks' = {}
    /\ UNCHANGED <<schedule, stageIx, userInputs, chunk_entities, chunk_map,
                   chunk_command_queue, nextEntity, entities, nextTask, tasks,
                   insertCmds, removeCmds, captured, mesh_buffers, uiVars, uniformVars, fault>>

\* ---------------------------------------------------------------- prepare_chunks
\* the query without its Added<Chunk> filter
PrepareChunksAll ==
    /\ Runs("prepare_chunks")
    /\ Ran("prepare_chunks")
    /\ entities' = [e \in Entities |->
                       IF Alive(e)
                       THEN [entities[e] EXCEPT !.added = FALSE, !.bundle = TRUE,
                                                !.mesh = EmptyMesh, !.visible = FALSE]
                       ELSE entities[e]]
    /\ UNCHANGED <<schedule, stageIx, userInputs, chunk_entities, chunk_map, dirty_chunks,
                   chunk_command_queue, nextEntity, nextTask, tasks, insertCmds,
                   removeCmds, captured, mesh_buffers, uiVars, uniformVars, fault>>

\* Query<(Entity, &Chunk), Added<Chunk>>: the entities created since the last run
PrepareChunks ==
    /\ Runs("prepare_chunks")
    /\ Ran("prepare_chunks")
    /\ entities' = [e \in Entities |->
                       IF Alive(e) /\ entities[e].added
                       THEN [entities[e] EXCEPT !.added = FALSE, !.bundle = TRUE,
                                                !.mesh = EmptyMesh, !.visible = FALSE]
                       ELSE entities[e]]
    /\ UNCHANGED <<schedule, stageIx, userInputs, chunk_entities, chunk_map, dirty_chunks,
                   chunk_command_queue, nextEntity, nextTask, tasks, insertCmds,
                   removeCmds, captured, mesh_buffers, uiVars, uniformVars, fault>>

\* ---------------------------------------------------------------- queue_mesh_tasks
ResolvedKeysAnyBuffer ==
    {k \in dirty_chunks : chunk_entities[k] # 0}

\* iter_dirty() filtered by chunk_entities.entity(key) and chunks.buffer_at(key)
ResolvedKeys ==
    {k \in dirty_chunks : chunk_entities[k] # 0 /\ chunk_map[k] # 0}

\* the id of the task spawned for key k: fresh ids, one per resolved key
TaskIdOf(k) == nextTask + Cardinality({j \in ResolvedKeys : j < k})

\* task_pool.spawn(async move { ... mesh_buffer(&buffer, ...) ... }) with the
\* buffer cloned at the spawn
SpawnedTask(k) ==
    [NoTask EXCEPT !.state = "scheduled", !.entity = chunk_entities[k], !.key = k,
                   !.buffer = chunk_map[k], !.handle = "pending"]

\* commands.entity(entity) panics for an entity that does not exist
QueueMeshTasks ==
    /\ Runs("queue_mesh_tasks")
    /\ Ran("queue_mesh_tasks")
    /\ nextTask + Cardinality(ResolvedKeys) <= MaxTasks + 1
    /\ fault' = IF \A k \in ResolvedKeys : Alive(chunk_entities[k])
                THEN fault ELSE "queue_mesh_tasks"
    /\ tasks' = [t \in TaskIds |->
                    IF \E k \in ResolvedKeys : TaskIdOf(k) = t
                    THEN SpawnedTask(CHOOSE k \in ResolvedKeys : TaskIdOf(k) = t)
                    ELSE tasks[t]]
    /\ nextTask' = nextTask + Cardinality(ResolvedKeys)
    /\ insertCmds' = insertCmds \cup {<<chunk_entities[k], TaskIdOf(k)>> : k \in ResolvedKeys}
    /\ captured' = [e \in Entities |->
                       IF \E k \in dirty_chunks : chunk_entities[k] = e
                       THEN LET k == CHOOSE j \in dirty_chunks : chunk_entities[j] = e
                            IN  IF k \in ResolvedKeys THEN chunk_map[k] ELSE 0
                       ELSE captured[e]]
    /\ UNCHANGED <<schedule, stageIx, userInputs, chunk_entities, chunk_map, dirty_chunks,
                   chunk_command_queue, nextEntity, entities, removeCmds, mesh_buffers,
                   uiVars, uniformVars>>

\* ---------------------------------------------------------------- process_mesh_tasks
\* a poll that waits for the task: block_on(&mut mesh_task.0)
poll_blocking(t) == [some |-> TRUE, mesh |-> mesh_buffer(t.buffer)]

\* future::block_on(future::poll_once(&mut mesh_task.0)): the output of a
\* finished task, None for a task that has not finished; never waits
poll_once(t) ==
    IF t.state = "done"
    THEN [some |-> TRUE, mesh |-> mesh_buffer(t.buffer)]
    ELSE [some |-> FALSE, mesh |-> EmptyMesh]

\* Query<(Entity, &Handle<Mesh>, &mut ChunkMeshingTask, &mut Visibility), With<Chunk>>
MeshTaskQuery ==
    {e \in Entities : Alive(e) /\ entities[e].bundle /\ entities[e].task # 0}

Completed == {e \in MeshTaskQuery : poll_once(tasks[entities[e].task]).some}

IntegratedHidden(ent, mesh) == [ent EXCEPT !.mesh = mesh]

\* *meshes.get_mut(handle).unwrap() = mesh; visibility.is_visible = true
Integrated(ent, mesh) == [ent EXCEPT !.mesh = mesh, !.visible = TRUE]

ProcessMeshTasks ==
    /\ Runs("process_mesh_tasks")
    /\ ~Runs("queue_mesh_tasks")
    /\ Ran("process_mesh_tasks")
    /\ entities' = [e \in Entities |->
                       IF e \in Completed
                       THEN Integrated(entities[e], poll_once(tasks[entities[e].task]).mesh)
                       ELSE entities[e]]
    /\ tasks' = [t \in TaskIds |->
                    IF \E e \in Completed : entities[e].task = t
                    THEN [tasks[t] EXCEPT !.state = "taken"]
                    ELSE tasks[t]]
    /\ removeCmds' = removeCmds \cup Completed
    /\ UNCHANGED <<schedule, stageIx, userInputs, chunk_entities, chunk_map, dirty_chunks,
                   chunk_command_queue, nextEntity, nextTask, insertCmds, captured, mesh_buffers, uiVars, uniformVars, fault>>

\* ---------------------------------------------------------------- deferred commands
\* an insert that leaves the replaced task untouched
ApplyInsertsLeak(w) ==
    LET target == {c[1] : c \in insertCmds}
        new(e) == (CHOOSE c \in insertCmds : c[1] = e)[2]
    IN  [ents |-> [e \in Entities |->
                      IF e \in target THEN [w.ents[e] EXCEPT !.task = new(e)]
                      ELSE w.ents[e]],
         tks |-> [t \in TaskIds |->
                     IF \E c \in insertCmds : c[2] = t
                     THEN [w.tks[t] EXCEPT !.handle = "attached"]
                     ELSE w.tks[t]]]

\* commands.entity(entity).insert(task): the component replaces (and drops)
\* a ChunkMeshingTask the entity already has
ApplyInserts(w) ==
    LET target == {c[1] : c \in insertCmds}
        new(e) == (CHOOSE c \in insertCmds : c[1] = e)[2]
    IN  [ents |-> [e \in Entities |->
                      IF e \in target THEN [w.ents[e] EXCEPT !.task = new(e)]
                      ELSE w.ents[e]],
         tks |-> [t \in TaskIds |->
                     IF \E c \in insertCmds : c[2] = t
                     THEN [w.tks[t] EXCEPT !.handle = "attached"]
                     ELSE IF \E e \in target : w.ents[e].task = t
                     THEN DropTask(w.tks[t])
                     ELSE w.tks[t]]]

\* removals that are never applied
ApplyRemovesNone(w) == w

\* commands.entity(entity).remove::<ChunkMeshingTask>(): drops the component
\* the entity has when the command is applied
ApplyRemoves(w) ==
    [ents |-> [e \in Entities |->
                  IF e \in removeCmds THEN [w.ents[e] EXCEPT !.task = 0]
                  ELSE w.ents[e]],
     tks |-> [t \in TaskIds |->
                 IF \E e \in removeCmds : w.ents[e].task = t
                 THEN DropTask(w.tks[t])
                 ELSE w.tks[t]]]

\* the stage applies the buffers of its systems in their order in the stage:
\* queue_mesh_tasks (labelled before) first, process_mesh_tasks second
ApplyMeshingBuffers(w) == ApplyRemoves(ApplyInserts(w))

\* ---------------------------------------------------------------- the task pool
\* one workspace for all threads
SharedSlot(w) == 1

\* ThreadLocal::get_or: the slot of the calling thread
ThreadLocalSlot(w) == w

\* no workspace made yet, nobody borrows it
NoMeshBuffers == [made |-> 0, borrower |-> 0]

\* get_or(|| RefCell::new(MeshBuffers::new(..))) makes the workspace of the
\* slot on its first use; borrow_mut() hands it to task t
Borrowed(slot, t) ==
    [made |-> IF slot.made = 0 THEN 1 ELSE slot.made, borrower |-> t]

\* the guard mesh_buffers is dropped when the body ends
Released(slot) == [slot EXCEPT !.borrower = 0]

\* worker w takes task t from the pool and runs its body, which has no await:
\* the thread runs nothing else until the body ends.  borrow_mut() panics if
\* the workspace is borrowed.
StartTask(w, t) ==
    /\ fault = "none"
    /\ tasks[t].state = "scheduled"
    /\ \A u \in TaskIds : ~(tasks[u].state = "running" /\ tasks[u].worker = w)
    /\ tasks' = [tasks EXCEPT ![t].state = "running", ![t].worker = w]
    /\ LET slot == ThreadLocalSlot(w)
       IN  IF mesh_buffers[slot].borrower = 0
           THEN /\ mesh_buffers' = [mesh_buffers EXCEPT
                                       ![slot] = Borrowed(mesh_buffers[slot], t)]
                /\ fault' = fault
           ELSE /\ mesh_buffers' = [mesh_buffers EXCEPT
                                       ![slot].made = IF @ = 0 THEN 1 ELSE @]
                /\ fault' = "borrow_mut"
    /\ UNCHANGED <<schedule, stageIx, pending, userInputs, chunk_entities, chunk_map,
                   dirty_chunks, chunk_command_queue, nextEntity, entities, nextTask,
                   insertCmds, removeCmds, captured, uiVars, uniformVars>>

FinishTask(t) ==
    /\ fault = "none"
    /\ tasks[t].state = "running"
    /\ tasks' = [tasks EXCEPT ![t] =
                    IF tasks[t].handle = "dropped"
                    THEN GoneTask
                    ELSE [tasks[t] EXCEPT !.state = "done", !.worker = 0]]
    /\ mesh_buffers' = [s \in Workers |->
                           IF mesh_buffers[s].borrower = t THEN Released(mesh_buffers[s])
                           ELSE mesh_buffers[s]]
    /\ UNCHANGED <<schedule, stageIx, pending, userInputs, chunk_entities, chunk_map,
                   dirty_chunks, chunk_command_queue, nextEntity, entities, nextTask,
                   insertCmds, removeCmds, captured, uiVars, uniformVars, fault>>

\* ---------------------------------------------------------------- debug overlay
RadiusMin == 8
MaxRadius == 9

ToggleDebugUiDisplays(keys) ==
    /\ Runs("toggle_debug_ui_displays")
    /\ Ran("toggle_debug_ui_displays")
    /\ keys \subseteq userInputs
    /\ ui_state' = [ui_state EXCEPT
            !.display_debug_info = IF "F3" \in keys THEN ~@ ELSE @,
            !.display_mat_debug = IF "F7" \in keys THEN ~@ ELSE @]
    /\ UNCHANGED <<schedule, stageIx, userInputs, meshVars, chunk_loading_radius, uniformVars, fault>>

\* Slider::new(&mut chunk_loading_radius.horizontal, 8..=32) borrows the
\* resource mutably, which flags it changed, whether or not the user drags;
\* "Clear loaded chunks" queues every loaded key for unloading
DisplayChunkStats(newRadius, clicked) ==
    /\ Runs("display_chunk_stats")
    /\ Ran("display_chunk_stats")
    /\ newRadius # chunk_loading_radius.horizontal => "slider" \in userInputs
    /\ clicked => "clear" \in userInputs
    /\ chunk_loading_radius' = [horizontal |-> newRadius, changed |-> TRUE]
    /\ chunk_command_queue' =
           IF clicked
           THEN chunk_command_queue \cup {k \in Keys : chunk_entities[k] # 0}
           ELSE chunk_command_queue
    /\ UNCHANGED <<schedule, stageIx, userInputs, chunk_entities, chunk_map, dirty_chunks,
                   nextEntity, entities, nextTask, tasks, insertCmds, removeCmds,
                   captured, mesh_buffers, ui_state, uniformVars, fault>>

\* ---------------------------------------------------------------- materials
MaxMaterials == 2
MaxFlags == 1
TableCapacity == 256

\* a colour: one colour channel c and the alpha a
Colors == [c : 0..1, a : 0..1]
\* the colours the colour button offers under Alpha::Opaque
OpaqueColors == {col \in Colors : col.a = 1}
White == [c |-> 1, a |-> 1]
Black == [c |-> 0, a |-> 1]

\* Rgba::from_rgba_unmultiplied(r, g, b, a) stores the channels multiplied by
\* alpha; Color::from(rgba.to_array()) reads them back as they are stored
ThroughRgba(col) == [c |-> col.c * col.a, a |-> col.a]

\* GpuVoxelMaterial::default(): Color::default() is white
DefaultGpuMaterial ==
    [base_color |-> White, flags |-> 0, emissive |-> White,
     perceptual_roughness |-> 0, metallic |-> 0, reflectance |-> 0]

\* GpuVoxelMaterial { base_color: Color::WHITE, flags: 0, ..Default::default() }
SentinelMaterial == [DefaultGpuMaterial EXCEPT !.base_color = White, !.flags = 0]

\* a table of TableCapacity slots: the slots 0 .. Len(head)-1 hold head, every
\* other slot holds fill
SlotOf(table, i) == IF i < Len(table.head) THEN table.head[i + 1] ELSE table.fill

\* GpuTerrainMaterials::default()
DefaultTable == [head |-> <<>>, fill |-> DefaultGpuMaterial]

\* the fields extract_voxel_materials copies from a registry material
GpuMaterialOf(material) ==
    [base_color |-> material.base_color, flags |-> material.flags,
     emissive |-> material.emissive,
     perceptual_roughness |-> material.perceptual_roughness,
     metallic |-> material.metallic, reflectance |-> material.reflectance]

\* a table whose unused slots are zero-initialised
ExtractedTableZeroed(mats) ==
    [head |-> [i \in 1..Len(mats) |-> GpuMaterialOf(mats[i])],
     fill |-> [DefaultGpuMaterial EXCEPT !.base_color = [c |-> 0, a |-> 0],
                                         !.emissive = [c |-> 0, a |-> 0]]]

\* the table extract_voxel_materials builds: every slot the sentinel, then
\* slot index of iter_mats().enumerate() overwritten with material index
ExtractedTable(mats) ==
    [head |-> [i \in 1..Len(mats) |-> GpuMaterialOf(mats[i])], fill |-> SentinelMaterial]

\* StorageBuffer::default(): a value, and no GPU buffer until write_buffer
EmptyBuffer(value) == [value |-> value, allocated |-> FALSE, content |-> value]

\* a buffer whose value is set and never written to the GPU
SetOnly(value) == [value |-> value, allocated |-> FALSE, content |-> value]

\* StorageBuffer::set followed by StorageBuffer::write_buffer
Written(value) == [value |-> value, allocated |-> TRUE, content |-> value]

\* ---------------------------------------------------------------- material editor
\* the material the editor writes back: both colours go through egui's Rgba,
\* the sliders borrow their fields
Edited(material, picked, roughness) ==
    [material EXCEPT
        !.base_color = IF picked = {} THEN ThroughRgba(@)
                       ELSE ThroughRgba(CHOOSE col \in picked : TRUE),
        !.perceptual_roughness = roughness,
        !.emissive = ThroughRgba(@)]

\* selected: the entry chosen in the combo box; picked: the colour chosen in
\* the colour button ({} when the user leaves it alone); get_mut_by_id
\* borrows the registry mutably, which flags it changed
DisplayMaterialEditor(selected, picked, roughness) ==
    /\ Runs("display_material_editor")
    /\ Ran("display_material_editor")
    /\ selected \in 0..(Len(materials.mats) - 1)
    /\ selected # ui_state.selected_mat => "combo" \in userInputs
    /\ picked # {} => "picker" \in userInputs
    /\ LET old == materials.mats[selected + 1]
       IN  /\ roughness # old.perceptual_roughness => "slider" \in userInputs
           /\ materials' = [mats |-> [materials.mats EXCEPT
                                         ![selected + 1] = Edited(old, picked, roughness)],
                            changed |-> TRUE]
    /\ ui_state' = [ui_state EXCEPT !.selected_mat = selected]
    /\ UNCHANGED <<schedule, stageIx, userInputs, meshVars, chunk_loading_radius,
                   renderVars, historyVars, fault>>

\* ---------------------------------------------------------------- extract
\* if materials.is_changed(): changed since the last run of this system
ExtractVoxelMaterials ==
    /\ Runs("extract_voxel_materials")
    /\ Ran("extract_voxel_materials")
    /\ ran' = ran \cup {"extract_voxel_materials"}
    /\ materials' = [materials EXCEPT !.changed = FALSE]
    /\ IF materials.changed
       THEN IF Len(materials.mats) <= TableCapacity
            THEN /\ extractCmds' = [extractCmds EXCEPT
                        !.mats = [some |-> TRUE, table |-> ExtractedTable(materials.mats)]]
                 /\ fault' = fault
            ELSE /\ fault' = "extract_voxel_materials"
                 /\ UNCHANGED extractCmds
       ELSE UNCHANGED <<extractCmds, fault>>
    /\ UNCHANGED <<schedule, stageIx, userInputs, meshVars, uiVars, gpu_mats,
                   gpu_settings, terrain_uniforms, writes, flagged, lastFrame>>

ExtractTerrainRenderSettingsUniform ==
    /\ Runs("extract_terrain_render_settings_uniform")
    /\ Ran("extract_terrain_render_settings_uniform")
    /\ ran' = ran \cup {"extract_terrain_render_settings_uniform"}
    /\ chunk_loading_radius' = [chunk_loading_radius EXCEPT !.changed = FALSE]
    /\ extractCmds' =
           IF chunk_loading_radius.changed
           THEN [extractCmds EXCEPT
                    !.settings = [some |-> TRUE,
                                  render_distance |-> chunk_loading_radius.horizontal]]
           ELSE extractCmds
    /\ UNCHANGED <<schedule, stageIx, userInputs, meshVars, ui_state, materials, gpu_mats,
                   gpu_settings, terrain_uniforms, writes, flagged, lastFrame, fault>>

\* commands.insert_resource(..), applied when the Extract stage ends
NoExtractCmds ==
    [mats |-> [some |-> FALSE, table |-> DefaultTable],
     settings |-> [some |-> FALSE, render_distance |-> 0]]

\* an insert that flags the resource changed only when it creates it
ApplyExtractMatsUnflagged(res) ==
    IF extractCmds.mats.some
    THEN [present |-> TRUE, table |-> extractCmds.mats.table, changed |-> ~res.present]
    ELSE res

ApplyExtractMats(res) ==
    IF extractCmds.mats.some
    THEN [present |-> TRUE, table |-> extractCmds.mats.table, changed |-> TRUE]
    ELSE res

ApplyExtractSettings(res) ==
    IF extractCmds.settings.some
    THEN [present |-> TRUE, render_distance |-> extractCmds.settings.render_distance,
          changed |-> TRUE]
    ELSE res

\* ---------------------------------------------------------------- upload
\* a write on every run, whether or not the resource changed
UploadRenderDistanceUniformAlways ==
    /\ Runs("upload_render_distance_uniform")
    /\ Ran("upload_render_distance_uniform")
    /\ ran' = ran \cup {"upload_render_distance_uniform"}
    /\ gpu_settings.present
    /\ gpu_settings' = [gpu_settings EXCEPT !.changed = FALSE]
    /\ terrain_uniforms' = [terrain_uniforms EXCEPT
            !.render_distance_params = Written(gpu_settings.render_distance)]
    /\ writes' = writes \cup {"render_distance_params"}
    /\ UNCHANGED <<schedule, stageIx, userInputs, meshVars, uiVars, materials, extractCmds,
                   gpu_mats, flagged, lastFrame, fault>>

\* Res<GpuTerrainMaterials> panics when the resource does not exist
UploadVoxelMaterials ==
    /\ Runs("upload_voxel_materials")
    /\ Ran("upload_voxel_materials")
    /\ ran' = ran \cup {"upload_voxel_materials"}
    /\ IF ~gpu_mats.present
       THEN /\ fault' = "upload_voxel_materials"
            /\ UNCHANGED <<gpu_mats, terrain_uniforms, writes>>
       ELSE /\ fault' = fault
            /\ gpu_mats' = [gpu_mats EXCEPT !.changed = FALSE]
            /\ IF gpu_mats.changed
               THEN /\ terrain_uniforms' = [terrain_uniforms EXCEPT
                            !.materials_buffer = Written(gpu_mats.table)]
                    /\ writes' = writes \cup {"materials_buffer"}
               ELSE UNCHANGED <<terrain_uniforms, writes>>
    /\ UNCHANGED <<schedule, stageIx, userInputs, meshVars, uiVars, materials, extractCmds,
                   gpu_settings, flagged, lastFrame>>

UploadRenderDistanceUniform ==
    /\ Runs("upload_render_distance_uniform")
    /\ Ran("upload_render_distance_uniform")
    /\ ran' = ran \cup {"upload_render_distance_uniform"}
    /\ IF ~gpu_settings.present
       THEN /\ fault' = "upload_render_distance_uniform"
            /\ UNCHANGED <<gpu_settings, terrain_uniforms, writes>>
       ELSE /\ fault' = fault
            /\ gpu_settings' = [gpu_settings EXCEPT !.changed = FALSE]
            /\ IF gpu_settings.changed
               THEN /\ terrain_uniforms' = [terrain_uniforms EXCEPT
                            !.render_distance_params = Written(gpu_settings.render_distance)]
                    /\ writes' = writes \cup {"render_distance_params"}
               ELSE UNCHANGED <<terrain_uniforms, writes>>
    /\ UNCHANGED <<schedule, stageIx, userInputs, meshVars, uiVars, materials, extractCmds,
                   gpu_mats, flagged, lastFrame>>

\* a prepare pass that leaves the binding object as it found it
PrepareTerrainUniformsUnbuilt ==
    /\ Runs("prepare_terrain_uniforms")
    /\ Ran("prepare_terrain_uniforms")
    /\ ran' = ran \cup {"prepare_terrain_uniforms"}
    /\ UNCHANGED <<schedule, stageIx, userInputs, meshVars, uiVars, materials, renderVars,
                   writes, flagged, lastFrame, fault>>

\* ---------------------------------------------------------------- bind group
\* materials_buffer.buffer().unwrap() and render_distance_params.binding().unwrap()
\* panic for a buffer that was never written
PrepareTerrainUniforms ==
    /\ Runs("prepare_terrain_uniforms")
    /\ Ran("prepare_terrain_uniforms")
    /\ ran' = ran \cup {"prepare_terrain_uniforms"}
    /\ IF /\ terrain_uniforms.materials_buffer.allocated
          /\ terrain_uniforms.render_distance_params.allocated
       THEN /\ terrain_uniforms' = [terrain_uniforms EXCEPT !.bind_group = TRUE]
            /\ fault' = fault
       ELSE /\ fault' = "prepare_terrain_uniforms"
            /\ UNCHANGED terrain_uniforms
    /\ UNCHANGED <<schedule, stageIx, userInputs, meshVars, uiVars, materials, extractCmds,
                   gpu_mats, gpu_settings, writes, flagged, lastFrame>>

\* SetTerrainUniformsBindGroup::render: bind_group.as_ref().unwrap()
SetTerrainUniformsBindGroup ==
    /\ Runs("SetTerrainUniformsBindGroup")
    /\ Ran("SetTerrainUniformsBindGroup")
    /\ ran' = ran \cup {"SetTerrainUniformsBindGroup"}
    /\ fault' = IF terrain_uniforms.bind_group THEN fault ELSE "SetTerrainUniformsBindGroup"
    /\ UNCHANGED <<schedule, stageIx, userInputs, meshVars, uiVars, materials, renderVars,
                   writes, flagged, lastFrame>>

\* ---------------------------------------------------------------- stages
AdvanceStage ==
    /\ fault = "none"
    /\ pending = {}
    /\ stageIx' = NextIx
    /\ pending' = StageSystems(schedule[NextIx], ui_state)
    /\ IF stage = "ChunkMeshingStage"
       THEN LET w == ApplyMeshingBuffers([ents |-> entities, tks |-> tasks])
            IN  /\ entities' = w.ents
                /\ tasks' = w.tks
                /\ insertCmds' = {}
                /\ removeCmds' = {}
       ELSE UNCHANGED <<entities, tasks, insertCmds, removeCmds>>
    /\ IF stage = "Extract"
       THEN /\ gpu_mats' = ApplyExtractMats(gpu_mats)
            /\ gpu_settings' = ApplyExtractSettings(gpu_settings)
            /\ extractCmds' = NoExtractCmds
       ELSE UNCHANGED <<gpu_mats, gpu_settings, extractCmds>>
    /\ flagged' = IF schedule[NextIx] = "Extract"
                  THEN (IF materials.changed THEN {"materials"} ELSE {})
                       \cup (IF chunk_loading_radius.changed THEN {"radius"} ELSE {})
                  ELSE flagged
    /\ IF NextIx = 1
       THEN /\ ran' = {}
            /\ writes' = {}
            /\ lastFrame' = [valid |-> TRUE, mats |-> materials.mats,
                             radius |-> chunk_loading_radius.horizontal]
       ELSE UNCHANGED <<ran, writes, lastFrame>>
    /\ UNCHANGED <<schedule, userInputs, chunk_entities, chunk_map, dirty_chunks,
                   chunk_command_queue, nextEntity, nextTask, captured, mesh_buffers, uiVars,
                   materials, terrain_uniforms, fault>>

\* ---------------------------------------------------------------- specification
InitWorld ==
    /\ chunk_entities = [k \in Keys |-> 0]
    /\ chunk_map = [k \in Keys |-> 0]
    /\ dirty_chunks = {}
    /\ chunk_command_queue = {}
    /\ nextEntity = 1
    /\ entities = [e \in Entities |-> NoEntity]
    /\ nextTask = 1
    /\ tasks = [t \in TaskIds |-> NoTask]
    /\ insertCmds = {}
    /\ removeCmds = {}
    /\ captured = [e \in Entities |-> 0]
    /\ mesh_buffers = [s \in Workers |-> NoMeshBuffers]
    /\ ui_state = [display_debug_info |-> FALSE, display_mat_debug |-> FALSE,
                   selected_mat |-> 0]
    /\ chunk_loading_radius = [horizontal |-> RadiusMin, changed |-> TRUE]
    /\ fault = "none"

\* a registry material as registered at startup
InitMaterials ==
    [name : {"material"}, base_color : Colors, flags : 0..MaxFlags, emissive : {Black},
     perceptual_roughness : {0}, metallic : {0}, reflectance : {0}]

\* TerrainUniforms::from_world, and a render world without the extracted
\* resources
InitRenderWorld ==
    /\ extractCmds = NoExtractCmds
    /\ gpu_mats = [present |-> FALSE, table |-> DefaultTable, changed |-> FALSE]
    /\ gpu_settings = [present |-> FALSE, render_distance |-> 0, changed |-> FALSE]
    /\ terrain_uniforms = [materials_buffer |-> EmptyBuffer(DefaultTable),
                           render_distance_params |-> EmptyBuffer(0),
                           bind_group |-> FALSE]
    /\ ran = {}
    /\ writes = {}
    /\ flagged = {}
    /\ lastFrame = [valid |-> FALSE, mats |-> materials.mats,
                    radius |-> chunk_loading_radius.horizontal]

Init ==
    /\ schedule = MeshSchedule
    /\ stageIx = 1
    /\ pending = StageSystems(MeshSchedule[1], ui_state)
    /\ userInputs = {"F3", "clear"}
    /\ InitWorld
    /\ materials = [mats |-> <<[name |-> "material", base_color |-> Black, flags |-> 0,
                                emissive |-> Black, perceptual_roughness |-> 0,
                                metallic |-> 0, reflectance |-> 0]>>,
                    changed |-> TRUE]
    /\ InitRenderWorld

\* the overlay and the uniform pipeline, in a world without chunks
InitRender ==
    /\ schedule = RenderSchedule
    /\ stageIx = 1
    /\ userInputs = {"F3", "F7", "slider", "combo", "picker", "clear"}
    /\ InitWorld
    /\ pending = StageSystems(RenderSchedule[1], ui_state)
    /\ \E n \in 1..MaxMaterials :
          materials \in [mats : [1..n -> InitMaterials], changed : {TRUE}]
    /\ InitRenderWorld

Loader ==
    \/ \E k \in Keys : CreateChunk(k)
    \/ \E k \in Keys, v \in Voxels : WriteBuffer(k, v)
    \/ \E k \in Keys : MarkDirty(k)
    \/ \E k \in Keys : QueueUnload(k)
    \/ DestroyChunks
    \/ LoaderDone

TaskPool ==
    \/ \E w \in Workers, t \in TaskIds : StartTask(w, t)
    \/ \E t \in TaskIds : FinishTask(t)

Overlay ==
    \/ \E keys \in SUBSET {"F3", "F7"} : ToggleDebugUiDisplays(keys)
    \/ \E r \in RadiusMin..MaxRadius, c \in BOOLEAN : DisplayChunkStats(r, c)

Next ==
    \/ Loader
    \/ PrepareChunks
    \/ QueueMeshTasks
    \/ ProcessMeshTasks
    \/ TaskPool
    \/ Overlay
    \/ ClearDirtyChunks
    \/ AdvanceStage

Spec == Init /\ [][Next]_vars

NextRender ==
    \/ Overlay
    \/ \E sel \in 0..(MaxMaterials - 1), picked \in {{}} \cup {{col} : col \in OpaqueColors},
          r \in 0..1 : DisplayMaterialEditor(sel, picked, r)
    \/ ExtractVoxelMaterials
    \/ ExtractTerrainRenderSettingsUniform
    \/ UploadVoxelMaterials
    \/ UploadRenderDistanceUniform
    \/ PrepareTerrainUniforms
    \/ SetTerrainUniformsBindGroup
    \/ AdvanceStage

SpecRender == InitRender /\ [][NextRender]_vars

TypeOK ==
    /\ stageIx \in 1..Len(schedule)
    /\ dirty_chunks \subseteq Keys
    /\ nextTask \in 1..(MaxTasks + 1)
    /\ \A e \in Entities : entities[e].task \in TaskIds \cup {0}

\* ---------------------------------------------------------------- claims
InMeshingStage == stage = "ChunkMeshingStage"
FrameBoundary == ~InMeshingStage
Running(t) == tasks[t].state = "running"
\* the tasks of entity e whose handle is alive: in an insert command or
\* attached to the entity
LiveTasks(e) ==
    {t \in TaskIds : tasks[t].entity = e /\ tasks[t].handle \in {"pending", "attached"}}
\* the step is the run of system sys
StepOf(sys) == Runs(sys) /\ sys \notin pending'

\* C1: once the meshing cycle started by the last scheduling S of an entity is
\* over (the entity lives, was not marked dirty after S, carries no marker
\* and no insert is pending for it), the entity is visible and its geometry
\* is the meshing of the buffer captured at S.  In such a state no task is
\* left that could still change the geometry, so a state that violates this
\* refutes "eventually visible with the geometry of the captured buffer".
C1_EventualVisibility ==
    \A e \in Entities :
        (/\ Alive(e)
         /\ captured[e] # 0
         /\ entities[e].task = 0
         /\ \A c \in insertCmds : c[1] # e)
        => /\ entities[e].visible
           /\ entities[e].mesh = mesh_buffer(captured[e])

\* C2 as stated: queue_mesh_tasks never issues a task for an entity that
\* still carries a task, and at a frame boundary an entity has at most one
\* live task.
C2_NeverSpawnsWhileOutstanding ==
    /\ \A c \in insertCmds : entities[c[1]].task = 0
    /\ FrameBoundary => \A e \in Entities : Cardinality(LiveTasks(e)) <= 1

\* C2 as amended: at every frame boundary the live tasks of an entity are
\* exactly the one task attached as its marker, if any: a task superseded by
\* a later scheduling has had its handle dropped.
C2_AtMostOneAttached ==
    FrameBoundary =>
        \A e \in Entities :
            LiveTasks(e) = IF Alive(e) /\ entities[e].task # 0
                           THEN {entities[e].task} ELSE {}

\* a frame boundary after a double scheduling: the entity carries the new
\* task while the superseded one, its handle dropped, is still running
C2_Witness ==
    /\ stage = "debug_ui_stage"
    /\ \E e \in Entities, t \in TaskIds :
          /\ Alive(e)
          /\ entities[e].task \notin {0, t}
          /\ tasks[t].entity = e
          /\ tasks[t].handle = "dropped"
          /\ Running(t)

\* C3 as stated: no two tasks of the same chunk run at the same time.
C3_NoConcurrentSameChunk ==
    \A t1, t2 \in TaskIds :
        (t1 # t2 /\ Running(t1) /\ Running(t2)) => tasks[t1].key # tasks[t2].key

\* C3 as amended: when two tasks of the same chunk run at the same time, the
\* earlier one has been superseded: its handle is dropped (its output will
\* be discarded), or will be by the pending insert of the later one.
C3_ConcurrentOnlySuperseded ==
    \A t1, t2 \in TaskIds :
        (t1 < t2 /\ Running(t1) /\ Running(t2) /\ tasks[t1].key = tasks[t2].key)
        => tasks[t1].handle = "dropped" \/ tasks[t2].handle = "pending"

C3_Witness ==
    \E t1, t2 \in TaskIds :
        /\ t1 < t2 /\ Running(t1) /\ Running(t2)
        /\ tasks[t1].key = tasks[t2].key
        /\ tasks[t1].handle = "dropped"
        /\ tasks[t2].handle = "attached"

\* C4: after a pass of queue_mesh_tasks the issued tasks are one per dirty
\* key that has an entity and a buffer, for that entity and that buffer, and
\* nothing else; the pass does not fault.
C4_SkipOnRace ==
    (InMeshingStage /\ "queue_mesh_tasks" \notin pending) =>
        LET R == {k \in dirty_chunks : chunk_entities[k] # 0 /\ chunk_map[k] # 0}
        IN  /\ {c[1] : c \in insertCmds} = {chunk_entities[k] : k \in R}
            /\ Cardinality(insertCmds) = Cardinality(R)
            /\ \A c \in insertCmds :
                  \E k \in R : /\ c[1] = chunk_entities[k]
                               /\ tasks[c[2]].key = k
                               /\ tasks[c[2]].entity = c[1]
                               /\ tasks[c[2]].buffer = chunk_map[k]
            /\ {t \in TaskIds : tasks[t].handle = "pending"} = {c[2] : c \in insertCmds}
            /\ fault = "none"

\* a pass that issued a task for one dirty key and skipped another
C4_Witness ==
    /\ InMeshingStage /\ "queue_mesh_tasks" \notin pending
    /\ insertCmds # {}
    /\ \E k \in dirty_chunks : chunk_entities[k] = 0 \/ chunk_map[k] = 0

\* C5: the pass of process_mesh_tasks gives every polled entity whose task
\* is complete the task's mesh, makes it visible and issues the removal of
\* its marker; applying the stage's commands leaves it visible, without
\* marker, with that mesh.
C5_CompletionIntegration ==
    [][/\ StepOf("process_mesh_tasks") =>
            \A e \in MeshTaskQuery :
                tasks[entities[e].task].state = "done" =>
                    /\ entities'[e].mesh = mesh_buffer(tasks[entities[e].task].buffer)
                    /\ entities'[e].visible
                    /\ e \in removeCmds'
       /\ (InMeshingStage /\ ~InMeshingStage') =>
            \A e \in removeCmds :
                /\ entities'[e].visible
                /\ entities'[e].task = 0
                /\ entities'[e].mesh = mesh_buffer(tasks[entities[e].task].buffer)]_vars

\* an entity integrated by the pass, after the commands were applied
C5_Witness ==
    /\ stage = "debug_ui_stage"
    /\ \E e \in Entities :
          /\ Alive(e) /\ entities[e].visible /\ entities[e].task = 0
          /\ entities[e].mesh # EmptyMesh

\* C6: the pass of process_mesh_tasks leaves every entity whose task is not
\* complete, and that task, as they are, and issues no command for it.
C6_NonBlockingPoll ==
    [][StepOf("process_mesh_tasks") =>
            \A e \in MeshTaskQuery :
                tasks[entities[e].task].state # "done" =>
                    /\ entities'[e] = entities[e]
                    /\ tasks'[entities[e].task] = tasks[entities[e].task]
                    /\ e \notin removeCmds']_vars

\* the pass has run while a polled task was still scheduled or running
C6_Witness ==
    /\ InMeshingStage /\ pending = {}
    /\ \E e \in Entities :
          /\ Alive(e) /\ entities[e].task # 0
          /\ tasks[entities[e].task].state \in {"scheduled", "running"}

\* C7: the visibility and the geometry of an entity that has its render
\* components change only in the step of process_mesh_tasks, and only for
\* an entity whose task the poll finds complete.
C7_ChangeOnlyAtIntegration ==
    [][\A e \in Entities :
          (/\ Alive(e) /\ entities[e].bundle /\ entities'[e].life = "alive"
           /\ \/ entities'[e].visible # entities[e].visible
              \/ entities'[e].mesh # entities[e].mesh)
          => /\ StepOf("process_mesh_tasks")
             /\ entities[e].task # 0
             /\ tasks[entities[e].task].state = "done"]_vars

\* the poll took the output of a complete task and made the entity visible
C7_Witness ==
    \E e \in Entities :
        /\ Alive(e) /\ entities[e].visible /\ entities[e].task # 0
        /\ tasks[entities[e].task].state = "taken"
\* ---------------------------------------------------------------- uniform pipeline claims
Extracts == {"extract_voxel_materials", "extract_terrain_render_settings_uniform"}
Uploads == {"upload_voxel_materials", "upload_render_distance_uniform"}
\* the render stages of the frame are over but for the draw
AtDraw == stage = "Render"
\* the registry and the radius hold the values they held when the previous
\* frame ended
SameValuesAsLastFrame ==
    /\ lastFrame.valid
    /\ materials.mats = lastFrame.mats
    /\ chunk_loading_radius.horizontal = lastFrame.radius

\* C8: in a frame that finds the material table and the render-distance
\* setting with the values of the previous frame, neither GPU buffer is
\* written, whichever overlay systems ran.
C8_NoReuploadWhenUnchanged ==
    (AtDraw /\ SameValuesAsLastFrame) => writes = {}

\* C9: in a frame whose extract found only the material registry changed, no
\* step writes the render-distance buffer or changes its content; in a frame
\* whose extract found only the render-distance setting changed, no step
\* writes the material buffer or changes its content.
C9_UploadIndependence ==
    [][/\ (stage # "debug_ui_stage" /\ flagged = {"materials"})
            => /\ terrain_uniforms'.render_distance_params
                      = terrain_uniforms.render_distance_params
               /\ "render_distance_params" \notin writes'
       /\ (stage # "debug_ui_stage" /\ flagged = {"radius"})
            => /\ terrain_uniforms'.materials_buffer = terrain_uniforms.materials_buffer
               /\ "materials_buffer" \notin writes']_vars

\* a frame that found only the registry changed has uploaded the table
C9_Witness ==
    /\ AtDraw
    /\ flagged = {"materials"}
    /\ writes = {"materials_buffer"}
    /\ terrain_uniforms.materials_buffer.content = ExtractedTable(materials.mats)
    /\ lastFrame.valid /\ materials.mats # lastFrame.mats

\* C10 as stated: the binding object is built after both extracts, the
\* buffers are written after the binding object is built, and the draw comes
\* after all of them.
C10_PhaseOrder ==
    /\ "prepare_terrain_uniforms" \in ran => Extracts \subseteq ran
    /\ Uploads \cap ran # {} => "prepare_terrain_uniforms" \in ran
    /\ "SetTerrainUniformsBindGroup" \in ran
            => Extracts \cup Uploads \cup {"prepare_terrain_uniforms"} \subseteq ran

\* C10 amended: in every frame the buffers are written after both extracts,
\* the binding object is built after both writes, and the draw comes after
\* the binding object is built.
C10_PhaseOrderUploadFirst ==
    /\ Uploads \cap ran # {} => Extracts \subseteq ran
    /\ "prepare_terrain_uniforms" \in ran => Uploads \subseteq ran
    /\ "SetTerrainUniformsBindGroup" \in ran
            => Extracts \cup Uploads \cup {"prepare_terrain_uniforms"} \subseteq ran

\* the draw of a frame ran with the binding object built in that frame
C10_Witness ==
    /\ "SetTerrainUniformsBindGroup" \in ran
    /\ terrain_uniforms.bind_group
    /\ fault = "none"

\* C11: every run of the draw command finds the binding object built (and
\* does not fault), from the first frame on; a binding object that is built
\* is never absent again.
C11_DrawPrecondition ==
    [][/\ StepOf("SetTerrainUniformsBindGroup")
            => /\ terrain_uniforms.bind_group
               /\ "prepare_terrain_uniforms" \in ran
               /\ fault' = "none"
       /\ terrain_uniforms.bind_group => terrain_uniforms'.bind_group]_vars

\* the draw of the first frame has run
C11_Witness ==
    /\ ~lastFrame.valid
    /\ "SetTerrainUniformsBindGroup" \in ran
    /\ terrain_uniforms.bind_group

\* C17: every run of prepare_terrain_uniforms finds both buffers backed by GPU
\* memory, each written by its upload system earlier in the frame or in an
\* earlier frame, builds the binding object and does not fault, the first
\* frame included.
C17_PrepareFindsBuffers ==
    [][StepOf("prepare_terrain_uniforms")
            => /\ terrain_uniforms.materials_buffer.allocated
               /\ terrain_uniforms.render_distance_params.allocated
               /\ Uploads \subseteq ran
               /\ terrain_uniforms'.bind_group
               /\ fault' = "none"]_vars

\* the prepare pass of the first frame has run, after the first writes
C17_Witness ==
    /\ ~lastFrame.valid
    /\ stage = "Queue"
    /\ "prepare_terrain_uniforms" \in ran
    /\ writes = {"materials_buffer", "render_distance_params"}
    /\ terrain_uniforms.bind_group

\* the table extract_voxel_materials queued in this Extract stage; the
\* registry is not touched between the extract and the end of the stage
QueuedTable == extractCmds.mats.table
Slots == 0..(TableCapacity - 1)

\* C12: the table extracted from a registry of n materials holds, in every
\* slot i < n, the six fields of material i, and in every slot i >= n the
\* sentinel: opaque white base colour, flags 0.
C12_TableExtraction ==
    extractCmds.mats.some =>
        \A i \in Slots :
            LET slot == SlotOf(QueuedTable, i)
            IN  IF i < Len(materials.mats)
                THEN LET material == materials.mats[i + 1]
                     IN  /\ slot.base_color = material.base_color
                         /\ slot.flags = material.flags
                         /\ slot.emissive = material.emissive
                         /\ slot.perceptual_roughness = material.perceptual_roughness
                         /\ slot.metallic = material.metallic
                         /\ slot.reflectance = material.reflectance
                ELSE /\ slot.base_color = White
                     /\ slot.flags = 0

\* a registry of two materials, edited since the previous frame, has been
\* extracted
C12_Witness ==
    /\ extractCmds.mats.some
    /\ lastFrame.valid
    /\ Len(materials.mats) = 2
    /\ materials.mats[2].base_color # White
    /\ materials.mats[2].perceptual_roughness = 1
    /\ SlotOf(QueuedTable, 1).perceptual_roughness = 1
    /\ SlotOf(QueuedTable, 2) = SentinelMaterial

\* C19: slot 0 of every extracted table is the default material, opaque
\* white with no flags, whatever the registry holds.
C19_SlotZeroDefault ==
    extractCmds.mats.some =>
        /\ SlotOf(QueuedTable, 0).base_color = White
        /\ SlotOf(QueuedTable, 0).flags = 0

\* C13: at every draw phase the material buffer on the GPU holds the table
\* extracted from the registry as it is now, and the render-distance buffer
\* holds the radius as it is now: every change made before the Extract stage
\* of a frame has been extracted and uploaded before that frame draws.
C13_Lockstep ==
    (AtDraw /\ fault = "none") =>
        /\ terrain_uniforms.materials_buffer.allocated
        /\ terrain_uniforms.materials_buffer.content = ExtractedTable(materials.mats)
        /\ terrain_uniforms.render_distance_params.allocated
        /\ terrain_uniforms.render_distance_params.content
               = chunk_loading_radius.horizontal

\* the draw of a frame that changed both the registry and the radius has run
C13_Witness ==
    /\ AtDraw
    /\ "SetTerrainUniformsBindGroup" \in ran
    /\ lastFrame.valid
    /\ materials.mats # lastFrame.mats
    /\ chunk_loading_radius.horizontal # lastFrame.radius
    /\ terrain_uniforms.materials_buffer.content = ExtractedTable(materials.mats)
    /\ terrain_uniforms.render_distance_params.content = chunk_loading_radius.horizontal

\* ---------------------------------------------------------------- re-scheduling claims
\* the entities queue_mesh_tasks scheduled in this stage
ScheduledNow == {c[1] : c \in insertCmds}

\* C14: when queue_mesh_tasks schedules an entity that still has a task
\* attached, no later pass of process_mesh_tasks installs the mesh of that
\* older task: the pass that follows in the same stage leaves the geometry of
\* such an entity as it is.
C14_SupersededNeverInstalled ==
    [][StepOf("process_mesh_tasks") =>
            \A e \in MeshTaskQuery \cap ScheduledNow :
                entities'[e].mesh = entities[e].mesh]_vars

\* C20: every marker queue_mesh_tasks issued in a meshing stage is attached to
\* its entity when that stage is over, whatever removals process_mesh_tasks
\* issued in the same stage.
C20_MarkerSurvivesStage ==
    [][(InMeshingStage /\ ~InMeshingStage') =>
            \A c \in insertCmds :
                /\ entities'[c[1]].task = c[2]
                /\ tasks'[c[2]].handle = "attached"]_vars

\* ---------------------------------------------------------------- destroyed entities
\* a task whose entity was despawned
Orphan(t) == tasks[t].entity # 0 /\ entities[tasks[t].entity].life = "despawned"

\* C15: a task whose entity was destroyed has lost its handle, so no pass
\* polls it: it is never taken, the only step that changes it is the end of
\* its body, which leaves nothing of it; a pass of process_mesh_tasks changes
\* an entity only through the task of that living entity; and no step of
\* queue_mesh_tasks or process_mesh_tasks faults.
C15_DestroyedMidFlight ==
    [][/\ \A t \in TaskIds :
            Orphan(t) =>
                /\ tasks[t].handle = "dropped"
                /\ tasks'[t] \in {tasks[t], GoneTask}
       /\ StepOf("process_mesh_tasks") =>
            \A e \in Entities :
                entities'[e] # entities[e] =>
                    /\ Alive(e)
                    /\ tasks[entities[e].task].entity = e
                    /\ ~Orphan(entities[e].task)
       /\ fault' = "none"]_vars

\* both passes have run in a frame in which the task of an entity that the
\* loader destroyed is still running on a worker
C15_Witness ==
    /\ InMeshingStage
    /\ pending = {}
    /\ \E t \in TaskIds : Orphan(t) /\ Running(t)
    /\ \E k \in dirty_chunks : chunk_entities[k] = 0

\* ---------------------------------------------------------------- visibility claims
\* C18 as stated: between meshing stages an entity that carries a marker is
\* invisible.
C18_InFlightInvisible ==
    FrameBoundary =>
        \A e \in Entities : (Alive(e) /\ entities[e].task # 0) => ~entities[e].visible

\* C18 as amended: an entity is invisible from prepare_chunks until its first
\* integration, with or without a marker: only the integration of a complete
\* task of it makes an entity visible; when the stage of the integration ends
\* the entity is visible and carries no marker; a visible entity is never
\* hidden again, so it stays visible while a later task of it is in flight.
C18_InvisibleUntilIntegrated ==
    [][/\ \A e \in Entities :
            /\ (entities[e].added /\ StepOf("prepare_chunks")) => ~entities'[e].visible
            /\ (~entities[e].visible /\ entities'[e].visible)
                    => StepOf("process_mesh_tasks") /\ e \in Completed
            /\ (entities[e].visible /\ entities'[e].life = "alive") => entities'[e].visible
       /\ StepOf("process_mesh_tasks") =>
            \A e \in Completed : ~entities[e].visible => entities'[e].visible
       /\ (InMeshingStage /\ ~InMeshingStage') =>
            \A e \in removeCmds : entities'[e].visible /\ entities'[e].task = 0]_vars

\* between two meshing stages a visible entity carries the marker of a task
\* that is not complete
C18_Witness ==
    /\ stage = "debug_ui_stage"
    /\ \E e \in Entities :
          /\ Alive(e) /\ entities[e].visible /\ entities[e].task # 0
          /\ tasks[entities[e].task].state \in {"scheduled", "running"}
          /\ tasks[entities[e].task].handle = "attached"

\* ---------------------------------------------------------------- workspace claims
\* C16: every worker has at most one workspace, made once; a workspace is
\* borrowed by at most one task, the task running on its worker; every
\* running task holds the workspace of its worker, so no two running tasks
\* hold the same one; and no borrow_mut fails.
C16_WorkspaceExclusive ==
    /\ fault # "borrow_mut"
    /\ \A s \in Workers :
          /\ mesh_buffers[s].made <= 1
          /\ mesh_buffers[s].borrower # 0 =>
                /\ mesh_buffers[s].made = 1
                /\ Running(mesh_buffers[s].borrower)
                /\ ThreadLocalSlot(tasks[mesh_buffers[s].borrower].worker) = s
    /\ \A t \in TaskIds :
          Running(t) => mesh_buffers[ThreadLocalSlot(tasks[t].worker)].borrower = t
    /\ \A t1, t2 \in TaskIds :
          (t1 # t2 /\ Running(t1) /\ Running(t2)) => tasks[t1].worker # tasks[t2].worker

\* a worker runs its second task with the workspace it made for its first,
\* while no other worker has made one
C16_Witness ==
    \E w \in Workers :
        /\ mesh_buffers[w] = [made |-> 1, borrower |-> 2]
        /\ tasks[1].state \in {"done", "taken"}
        /\ \A s \in Workers \ {w} : mesh_buffers[s].made = 0

\* ---------------------------------------------------------------- latency claims
\* the tasks queue_mesh_tasks spawned in this stage
SpawnedNow == {c[2] : c \in insertCmds}

\* the pass of process_mesh_tasks polls no task spawned in its stage and
\* leaves every such task as it is
NeverPolledInSpawnFrame ==
    StepOf("process_mesh_tasks") =>
        /\ SpawnedNow \cap {entities[e].task : e \in MeshTaskQuery} = {}
        /\ \A t \in SpawnedNow : tasks'[t] = tasks[t]

\* the pass of process_mesh_tasks leaves the geometry and the visibility of
\* every entity scheduled in its stage as they are
ScheduledUnchangedInFrame ==
    StepOf("process_mesh_tasks") =>
        \A e \in ScheduledNow :
            /\ entities'[e].mesh = entities[e].mesh
            /\ entities'[e].visible = entities[e].visible

\* C21: a task spawned by queue_mesh_tasks is not polled by the pass of
\* process_mesh_tasks of the same frame, and the geometry and visibility of a
\* chunk scheduled in a frame do not change in that frame.
C21_OneFrameLatency ==
    [][NeverPolledInSpawnFrame /\ ScheduledUnchangedInFrame]_vars

====
